---- MODULE Spec2Model ----
(***************************************************************************)
(* Sales_Log (src/app.py): a Streamlit dashboard over the workbook         *)
(* data.xlsx with three sheets, SalesLog, Collections and Assignments.     *)
(*                                                                         *)
(* Every interaction is one run of the script: the three sheets are loaded *)
(* and reconciled (app.py 263-267), the selected page's handler runs, and  *)
(* a submitted form mutates the frames, reconciles, saves and reloads.     *)
(* Only st.session_state survives from one run to the next.                *)
(*                                                                         *)
(* Money is in whole dollars; Deposit% is kept in hundredths of a percent  *)
(* (round(x, 2) of the code).  A spreadsheet cell is <<n>> (a number) or   *)
(* <<>> (blank, NaN, or text that pd.to_numeric(errors="coerce") turns     *)
(* into NaN).                                                              *)
(***************************************************************************)
EXTENDS Integers, Sequences, FiniteSets, TLC

VARIABLES
    disk,           \* data.xlsx: [sales, collections, assignments], rows of cells
    locked,         \* data.xlsx is held open by another program (Excel)
    pc,             \* per session: position of the running script
    sales,          \* per session: the script's `sales` frame
    collections,    \* per session: the script's `collections` frame
    assignments,    \* per session: the script's `assignments` frame
    tmp,            \* per session: sheets written so far to the temporary workbook
    run,            \* per session: facts about the current script run
    prev_disk,      \* per session: data.xlsx as it was when save_data was entered
    boot_disk,      \* per session: data.xlsx as the run's boot load_data read it
    session_state,  \* per session: st.session_state
    submits         \* forms that reached save_data so far (bounds the model)

vars == <<disk, locked, pc, sales, collections, assignments, tmp, run,
          prev_disk, boot_disk, session_state, submits>>

----------------------------------------------------------------------------
(* Bounds of the model *)

\* Forms that get as far as save_data in one behaviour
MaxSubmits == 2

(* Quote-ID ranges of generate_unique_quote_id *)
TomsRiverFloor == 1000
ManahawkinFloor == 2000
FallbackFloor == 3000

Sessions == {1, 2}

----------------------------------------------------------------------------
(* Cells and small helpers *)

NaN == <<>>

Cell(n) == <<n>>

\* pd.to_numeric(x, errors="coerce").fillna(d)
fillna(cell, d) == IF cell = NaN THEN d ELSE cell[1]

Max2(a, b) == IF a >= b THEN a ELSE b

RECURSIVE SumSeq(_)
SumSeq(q) == IF q = <<>> THEN 0 ELSE Head(q) + SumSeq(Tail(q))

\* round(n / d, 0) for d > 0, ties to even (Python's round)
RoundDiv(n, d) ==
    LET q == n \div d
        r == n % d
    IN  IF 2 * r > d THEN q + 1
        ELSE IF 2 * r < d THEN q
        ELSE IF q % 2 = 0 THEN q ELSE q + 1

----------------------------------------------------------------------------
(* Data IO: load_data and what save_data writes *)

\* SalesLog rows: QuotedPrice, DepositPaid and QuoteID are coerced, NaN -> 0;
\* Deposit% and Status are read as stored.
LoadSale(r) ==
    [QuoteID     |-> fillna(r.QuoteID, 0),
     Client      |-> r.Client,
     QuotedPrice |-> fillna(r.QuotedPrice, 0),
     Status      |-> r.Status,
     DepositPct  |-> r.DepositPct,
     DepositPaid |-> fillna(r.DepositPaid, 0)]

\* Collections rows: QuoteID and DepositPaid are coerced, NaN -> 0;
\* BalanceDue is read as stored.
LoadCollection(r) ==
    [QuoteID     |-> fillna(r.QuoteID, 0),
     Client      |-> r.Client,
     DepositPaid |-> fillna(r.DepositPaid, 0),
     BalanceDue  |-> r.BalanceDue,
     Status      |-> r.Status]

\* load_data: the three frames read from a workbook.  The Assignments
\* sheet is returned as read, no column of it is coerced.
load_data(book) ==
    [sales       |-> [i \in 1..Len(book.sales) |-> LoadSale(book.sales[i])],
     collections |-> [i \in 1..Len(book.collections) |->
                         LoadCollection(book.collections[i])],
     assignments |-> book.assignments]

\* DataFrame.to_excel of a SalesLog row: numbers become numeric cells.
SaleToExcel(r) ==
    [QuoteID     |-> Cell(r.QuoteID),
     Client      |-> r.Client,
     QuotedPrice |-> Cell(r.QuotedPrice),
     Status      |-> r.Status,
     DepositPct  |-> r.DepositPct,
     DepositPaid |-> Cell(r.DepositPaid)]

CollectionToExcel(r) ==
    [QuoteID     |-> Cell(r.QuoteID),
     Client      |-> r.Client,
     DepositPaid |-> Cell(r.DepositPaid),
     BalanceDue  |-> r.BalanceDue,
     Status      |-> r.Status]

\* save_data lines 60-62 on a frame whose QuoteID column holds raw cells
\* (the Assignments frame): the column is rewritten in place.
NormalizeQuoteID(rows) ==
    [i \in 1..Len(rows) |->
        [rows[i] EXCEPT !.QuoteID = Cell(fillna(rows[i].QuoteID, 0))]]

\* The workbook made of the three sheets the ExcelWriter wrote.
BookOf(sheets) ==
    [sales |-> sheets[1], collections |-> sheets[2], assignments |-> sheets[3]]

\* The sheet save_data writes k-th (lines 97-99) for session s's frames.
SheetToWrite(k, s, c, a) ==
    IF k = 1 THEN [i \in 1..Len(s) |-> SaleToExcel(s[i])]
    ELSE IF k = 2 THEN [i \in 1..Len(c) |-> CollectionToExcel(c[i])]
    ELSE a

----------------------------------------------------------------------------
(* Derivations *)

QuoteIDs(rows) == {rows[i].QuoteID : i \in 1..Len(rows)}

\* groupby("QuoteID")["DepositPaid"].sum() looked up at one QuoteID; a
\* QuoteID with no ledger row maps to NaN, which fillna(0.0) makes 0.
LedgerSum(c, qid) ==
    LET Match(r) == r.QuoteID = qid
        group == SelectSeq(c, Match)
    IN  SumSeq([i \in 1..Len(group) |-> group[i].DepositPaid])

\* Mutant: Deposit% is capped at 100.
DepositPercentCapped(paid, price) ==
    IF price > 0
    THEN (IF RoundDiv(paid * 10000, price) > 10000 THEN 10000
          ELSE RoundDiv(paid * 10000, price))
    ELSE 0

\* round(DepositPaid / QuotedPrice * 100, 2), in hundredths of a percent
DepositPercent(paid, price) ==
    IF price > 0 THEN RoundDiv(paid * 10000, price) ELSE 0

\* Mutant: Deposit% is computed from the DepositPaid the sale carried when
\* it came in, not from the ledger sum just rolled up.
sync_deposit_paid_stale_percent(s, c) ==
    [i \in 1..Len(s) |->
        [s[i] EXCEPT !.DepositPaid = LedgerSum(c, s[i].QuoteID),
                     !.DepositPct  = Cell(DepositPercent(s[i].DepositPaid,
                                                         s[i].QuotedPrice))]]

\* Mutant: the ledger sum is added to the value cached on the sale (the
\* double counting the roll-up exists to avoid).
sync_deposit_paid_adds_to_cache(s, c) ==
    [i \in 1..Len(s) |->
        LET total == s[i].DepositPaid + LedgerSum(c, s[i].QuoteID)
        IN  [s[i] EXCEPT !.DepositPaid = total,
                         !.DepositPct  = Cell(DepositPercent(total, s[i].QuotedPrice))]]

sync_deposit_paid(s, c) ==
    [i \in 1..Len(s) |->
        LET total == LedgerSum(c, s[i].QuoteID)
        IN  [s[i] EXCEPT !.DepositPaid = total,
                         !.DepositPct  = Cell(DepositPercent(total, s[i].QuotedPrice))]]

UniqueQuoteIDs(s) ==
    \A i, j \in 1..Len(s) : s[i].QuoteID = s[j].QuoteID => i = j

\* c["QuoteID"].map(balance) raises InvalidIndexError when the index of
\* `balance` (the sales QuoteIDs) holds a value twice; the map is only
\* evaluated for a non-empty ledger.
InvalidIndexError(s, c) == c # <<>> /\ ~UniqueQuoteIDs(s)

\* (price_map - paid_map).clip(lower=0.0) at one sale
Balance(sale) == Max2(sale.QuotedPrice - sale.DepositPaid, 0)

\* Mutant: each ledger row gets the balance left after its own payment.
update_balance_due_per_payment(s, c) ==
    [i \in 1..Len(c) |->
        LET hits == {k \in 1..Len(s) : s[k].QuoteID = c[i].QuoteID}
        IN  [c[i] EXCEPT !.BalanceDue =
                IF hits = {} THEN Cell(0)
                ELSE Cell(Max2(s[CHOOSE k \in hits : TRUE].QuotedPrice
                               - c[i].DepositPaid, 0))]]

\* Mutant: the balance is not clipped at 0.
update_balance_due_unclipped(s, c) ==
    [i \in 1..Len(c) |->
        LET hits == {k \in 1..Len(s) : s[k].QuoteID = c[i].QuoteID}
        IN  [c[i] EXCEPT !.BalanceDue =
                IF hits = {} THEN Cell(0)
                ELSE LET sale == s[CHOOSE k \in hits : TRUE]
                     IN  Cell(sale.QuotedPrice - sale.DepositPaid)]]

\* Mutant: the balance recomputation also marks the rows of a settled quote
\* as "Paid".
update_balance_due_marks_paid(s, c) ==
    [i \in 1..Len(c) |->
        LET hits == {k \in 1..Len(s) : s[k].QuoteID = c[i].QuoteID}
            due  == IF hits = {} THEN 0 ELSE Balance(s[CHOOSE k \in hits : TRUE])
        IN  [c[i] EXCEPT !.BalanceDue = Cell(due),
                         !.Status = IF due = 0 THEN "Paid" ELSE @]]

\* Mutant: a ledger row whose QuoteID no sale carries is left without a
\* BalanceDue (the map's NaN is not filled).
update_balance_due_gaps_blank(s, c) ==
    [i \in 1..Len(c) |->
        LET hits == {k \in 1..Len(s) : s[k].QuoteID = c[i].QuoteID}
        IN  [c[i] EXCEPT !.BalanceDue =
                IF hits = {} THEN NaN
                ELSE Cell(Balance(s[CHOOSE k \in hits : TRUE]))]]

\* update_balance_due where it does not raise: every ledger row gets the
\* balance of the sale with its QuoteID, or 0 when there is none.
update_balance_due(s, c) ==
    [i \in 1..Len(c) |->
        LET hits == {k \in 1..Len(s) : s[k].QuoteID = c[i].QuoteID}
        IN  [c[i] EXCEPT !.BalanceDue =
                IF hits = {} THEN Cell(0)
                ELSE Cell(Balance(s[CHOOSE k \in hits : TRUE]))]]

----------------------------------------------------------------------------
(* Utils *)

SetMax(S) == CHOOSE m \in S : \A x \in S : x <= m

generate_unique_quote_id(area, s) ==
    LET ids == QuoteIDs(s)
    IN  IF area = "Toms River" THEN
            LET candidates == {q \in ids : q >= TomsRiverFloor /\ q < ManahawkinFloor}
            IN  IF candidates # {} THEN SetMax(candidates) + 1 ELSE TomsRiverFloor
        ELSE IF area = "Manahawkin" THEN
            LET candidates == {q \in ids : q >= ManahawkinFloor /\ q < FallbackFloor}
            IN  IF candidates # {} THEN SetMax(candidates) + 1 ELSE ManahawkinFloor
        ELSE
            LET candidates == {q \in ids : q >= FallbackFloor}
            IN  IF candidates # {} THEN SetMax(candidates) + 1 ELSE FallbackFloor

----------------------------------------------------------------------------
(* The state of one session *)

None == <<>>

EmptyBook == [sales |-> <<>>, collections |-> <<>>, assignments |-> <<>>]

\* st.session_state of a fresh browser session: no key is set.
FreshSessionState ==
    [sale_added             |-> None,
     collection_added_quote |-> None,
     collection_submitted   |-> FALSE,
     assigned               |-> FALSE]

\* What the current run has done so far: the form it handles, the area and
\* QuoteID of an added sale, what save_data returned and how often it
\* called os.replace, whether load_data was called after the save, whether
\* a success message or flag was produced, whether the run raised, whether
\* the form's validation refused the submission (st.error), and the
\* Collections History table the run has shown and the quote it was shown
\* for.
NoRun ==
    [path |-> "none", area |-> "", new_id |-> 0, ret |-> "none",
     attempts |-> 0, loaded |-> FALSE, success |-> FALSE, raised |-> FALSE,
     rejected |-> FALSE, selected |-> 0, history |-> <<>>]

Users == {1}

----------------------------------------------------------------------------
(* Inputs *)

Areas == {"Toms River", "Manahawkin"}
TextInputs == {"", "Ann"}
PriceInputs == {2000}
DepositInputs == {0, 400}
SaleStatusInputs == {"Won"}
AmountInputs == {0, 700}
CollectionStatusInputs == {"Paid"}
StartDateInputs == {2}
EndDateInputs == {1, 3}

\* Workbooks the app may be started on: each sheet is empty or holds one
\* row; rows carry a QuoteID at the top of a range, a blank QuoteID, a
\* cached DepositPaid that no ledger row backs, a stored negative
\* BalanceDue.
InitSaleRows ==
    {[QuoteID |-> q, Client |-> "Ann", QuotedPrice |-> Cell(1000), Status |-> "Won",
      DepositPct |-> NaN, DepositPaid |-> Cell(7)] : q \in {Cell(1999), Cell(2999), NaN}}

InitCollectionRows ==
    {[QuoteID |-> Cell(1999), Client |-> "Ann", DepositPaid |-> Cell(400),
      BalanceDue |-> Cell(-5), Status |-> "Pending"]}

InitAssignmentRows ==
    {[QuoteID |-> NaN, Client |-> "Ann", CrewMember |-> "Cy", DaysTaken |-> 0]}

AtMostOne(rows) == {<<>>} \cup {<<r>> : r \in rows}

InitialBooks ==
    {[sales |-> s, collections |-> c, assignments |-> a] :
        s \in AtMostOne(InitSaleRows),
        c \in AtMostOne(InitCollectionRows),
        a \in AtMostOne(InitAssignmentRows)}

Init ==
    /\ disk \in InitialBooks
    /\ locked = FALSE
    /\ pc = [s \in Sessions |-> "idle"]
    /\ sales = [s \in Sessions |-> <<>>]
    /\ collections = [s \in Sessions |-> <<>>]
    /\ assignments = [s \in Sessions |-> <<>>]
    /\ tmp = [s \in Sessions |-> <<>>]
    /\ run = [s \in Sessions |-> NoRun]
    /\ prev_disk = [s \in Sessions |-> EmptyBook]
    /\ boot_disk = [s \in Sessions |-> EmptyBook]
    /\ session_state = [s \in Sessions |-> FreshSessionState]
    /\ submits = 0

----------------------------------------------------------------------------
(* The environment *)

\* Another program opens data.xlsx and holds it.  Only os.replace observes
\* the lock, so it is taken when some save_data is about to call it.
Lock ==
    /\ ~locked
    /\ \E s \in Sessions : pc[s] = "save_replace"
    /\ locked' = TRUE
    /\ UNCHANGED <<disk, pc, sales, collections, assignments, tmp, run,
                   prev_disk, boot_disk, session_state, submits>>

Unlock ==
    /\ locked
    /\ locked' = FALSE
    /\ UNCHANGED <<disk, pc, sales, collections, assignments, tmp, run,
                   prev_disk, boot_disk, session_state, submits>>

\* The browser page is reloaded: Streamlit starts a new session, whose
\* session_state holds none of the keys.
Reconnect(s) ==
    /\ pc[s] = "idle"
    /\ session_state[s] # FreshSessionState
    /\ session_state' = [session_state EXCEPT ![s] = FreshSessionState]
    /\ UNCHANGED <<disk, locked, pc, sales, collections, assignments, tmp, run,
                   prev_disk, boot_disk, submits>>

----------------------------------------------------------------------------
(* App boot, lines 263-267 *)

\* load_data, sync_deposit_paid, update_balance_due.  When the last one
\* raises, the run ends there and no page is rendered.
Boot(s) ==
    /\ pc[s] = "idle"
    /\ LET l  == load_data(disk)
           s1 == sync_deposit_paid(l.sales, l.collections)
       IN  /\ sales' = [sales EXCEPT ![s] = s1]
           /\ assignments' = [assignments EXCEPT ![s] = l.assignments]
           /\ IF InvalidIndexError(s1, l.collections)
              THEN /\ collections' = [collections EXCEPT ![s] = l.collections]
                   /\ run' = [run EXCEPT ![s] = [NoRun EXCEPT !.raised = TRUE]]
                   /\ pc' = [pc EXCEPT ![s] = "end"]
              ELSE /\ collections' = [collections EXCEPT ![s] =
                                         update_balance_due(s1, l.collections)]
                   /\ run' = [run EXCEPT ![s] = NoRun]
                   /\ pc' = [pc EXCEPT ![s] = "page"]
    /\ boot_disk' = [boot_disk EXCEPT ![s] = disk]
    /\ UNCHANGED <<disk, locked, tmp, prev_disk, session_state, submits>>

\* The script has finished (end of file, st.stop or st.rerun): its frames
\* are gone, session_state stays.
EndRun(s) ==
    /\ pc[s] = "end"
    /\ pc' = [pc EXCEPT ![s] = "idle"]
    /\ sales' = [sales EXCEPT ![s] = <<>>]
    /\ collections' = [collections EXCEPT ![s] = <<>>]
    /\ assignments' = [assignments EXCEPT ![s] = <<>>]
    /\ run' = [run EXCEPT ![s] = NoRun]
    /\ prev_disk' = [prev_disk EXCEPT ![s] = EmptyBook]
    /\ boot_disk' = [boot_disk EXCEPT ![s] = EmptyBook]
    /\ UNCHANGED <<disk, locked, tmp, session_state, submits>>

\* Dashboard: the page only reads the frames.
Dashboard(s) ==
    /\ pc[s] = "page"
    /\ pc' = [pc EXCEPT ![s] = "end"]
    /\ UNCHANGED <<disk, locked, sales, collections, assignments, tmp, run,
                   prev_disk, boot_disk, session_state, submits>>

----------------------------------------------------------------------------
(* Sales Log page, lines 460-575 *)

\* Lines 472-484: a sale was added in an earlier run, the banner and the
\* "add another sale?" radio are shown and the form is not.  "Yes" clears
\* sale_added; "No" (the default) leaves it.
SalesLogBanner(s, add_another) ==
    /\ pc[s] = "page"
    /\ session_state[s].sale_added # None
    /\ session_state' = [session_state EXCEPT ![s].sale_added =
                            IF add_another = "Yes" THEN None ELSE @]
    /\ pc' = [pc EXCEPT ![s] = "end"]
    /\ UNCHANGED <<disk, locked, sales, collections, assignments, tmp, run,
                   prev_disk, boot_disk, submits>>

\* Lines 523-534 and 539-546: the rows the handler adds.
NewSaleRow(new_id, client, quoted_price, deposit_paid, status) ==
    [QuoteID     |-> new_id,
     Client      |-> client,
     QuotedPrice |-> quoted_price,
     Status      |-> status,
     DepositPct  |-> Cell(DepositPercent(deposit_paid, quoted_price)),
     DepositPaid |-> deposit_paid]

InitialCollectionRow(new_id, client, quoted_price, deposit_paid) ==
    [QuoteID     |-> new_id,
     Client      |-> client,
     DepositPaid |-> deposit_paid,
     BalanceDue  |-> Cell(Max2(quoted_price - deposit_paid, 0)),
     Status      |-> IF deposit_paid < quoted_price THEN "Partially Paid" ELSE "Paid"]

\* Lines 510-558 up to the call of save_data: "Add Sale" was pressed.
SubmitSale(s, area, client, sales_rep, job_type, quoted_price, deposit_paid, status) ==
    /\ pc[s] = "page"
    /\ session_state[s].sale_added = None
    /\ submits < MaxSubmits
    /\ IF client = "" \/ sales_rep = "" \/ job_type = ""
       THEN \* "All fields are required"
            /\ run' = [run EXCEPT ![s] = [@ EXCEPT !.path = "sale", !.rejected = TRUE]]
            /\ pc' = [pc EXCEPT ![s] = "end"]
            /\ UNCHANGED <<sales, collections, submits>>
       ELSE LET new_id == generate_unique_quote_id(area, sales[s])
                s1 == Append(sales[s],
                             NewSaleRow(new_id, client, quoted_price, deposit_paid, status))
                c1 == IF deposit_paid > 0
                      THEN Append(collections[s],
                                  InitialCollectionRow(new_id, client, quoted_price,
                                                       deposit_paid))
                      ELSE collections[s]
                s2 == sync_deposit_paid(s1, c1)
            IN  /\ sales' = [sales EXCEPT ![s] = s2]
                /\ submits' = submits + 1
                /\ IF InvalidIndexError(s2, c1)
                   THEN /\ collections' = [collections EXCEPT ![s] = c1]
                        /\ run' = [run EXCEPT ![s] =
                                      [@ EXCEPT !.path = "sale", !.area = area,
                                                !.new_id = new_id, !.raised = TRUE]]
                        /\ pc' = [pc EXCEPT ![s] = "end"]
                   ELSE /\ collections' = [collections EXCEPT ![s] =
                                              update_balance_due(s2, c1)]
                        /\ run' = [run EXCEPT ![s] =
                                      [@ EXCEPT !.path = "sale", !.area = area,
                                                !.new_id = new_id]]
                        /\ pc' = [pc EXCEPT ![s] = "save"]
    /\ UNCHANGED <<disk, locked, assignments, tmp, prev_disk, boot_disk, session_state>>

\* Lines 553-558: save_data has returned.
AfterSaveSale(s) ==
    /\ pc[s] = "saved"
    /\ run[s].path = "sale"
    /\ IF run[s].ret = "True"
       THEN LET l == load_data(disk)
            IN  /\ sales' = [sales EXCEPT ![s] = l.sales]
                /\ collections' = [collections EXCEPT ![s] = l.collections]
                /\ assignments' = [assignments EXCEPT ![s] = l.assignments]
                /\ session_state' = [session_state EXCEPT ![s].sale_added =
                                        Cell(run[s].new_id)]
                /\ run' = [run EXCEPT ![s] = [@ EXCEPT !.loaded = TRUE, !.success = TRUE]]
       ELSE UNCHANGED <<sales, collections, assignments, session_state, run>>
    /\ pc' = [pc EXCEPT ![s] = "end"]
    /\ UNCHANGED <<disk, locked, tmp, prev_disk, boot_disk, submits>>

----------------------------------------------------------------------------
(* Collections page, lines 580-719 *)

\* Lines 584-596: a collection was added in the run before.  The radio is
\* created in this run, so it returns its default "No": the table is
\* shown, collection_added_quote is cleared and the run stops.
\* collection_submitted is left as it is.
CollectionsBanner(s) ==
    /\ pc[s] = "page"
    /\ session_state[s].collection_added_quote # None
    /\ session_state' = [session_state EXCEPT ![s].collection_added_quote = None]
    /\ pc' = [pc EXCEPT ![s] = "end"]
    /\ UNCHANGED <<disk, locked, sales, collections, assignments, tmp, run,
                   prev_disk, boot_disk, submits>>

\* Line 602-605: the quotes the selectbox offers.
WonQuoteIDs(s) == {s[i].QuoteID : i \in {k \in 1..Len(s) : s[k].Status = "Won"}}

\* Line 613: the client of the first Won row with the selected QuoteID.
ClientOf(s, qid) ==
    LET hits == {k \in 1..Len(s) : s[k].Status = "Won" /\ s[k].QuoteID = qid}
    IN  IF hits = {} THEN ""
        ELSE s[CHOOSE k \in hits : \A j \in hits : k <= j].Client

\* .clip(upper=b)
Min2(a, b) == IF a <= b THEN a ELSE b

\* Mutant: TotalPaidAfterThis is not clipped at the quoted price.
collectionHistoryUnclipped(s, c, qid) ==
    LET won     == {k \in 1..Len(s) : s[k].Status = "Won" /\ s[k].QuoteID = qid}
        any     == {k \in 1..Len(s) : s[k].QuoteID = qid}
        quoted_price == s[CHOOSE k \in won : \A j \in won : k <= j].QuotedPrice
        paid_to_date == s[CHOOSE k \in any : \A j \in any : k <= j].DepositPaid
        Match(r)     == r.QuoteID = qid
        coll_history == SelectSeq(c, Match)
        amounts      == [i \in 1..Len(coll_history) |-> coll_history[i].DepositPaid]
        base_offset  == Max2(0, paid_to_date - SumSeq(amounts))
    IN  [i \in 1..Len(coll_history) |->
            LET running == SumSeq(SubSeq(amounts, 1, i))
                total   == base_offset + running
            IN  [QuoteID            |-> coll_history[i].QuoteID,
                 DepositPaid        |-> amounts[i],
                 RunningTotal       |-> running,
                 TotalPaidAfterThis |-> total,
                 BalanceAfterThis   |-> Max2(quoted_price - total, 0)]]

\* Lines 612-660: the Collections History table of the selected Won quote.
\* The rows are the ledger rows of the quote in ledger order; RunningTotal
\* is the cumulative sum of their amounts, TotalPaidAfterThis adds
\* base_offset to it and is clipped at the quoted price.
collectionHistory(s, c, qid) ==
    LET won     == {k \in 1..Len(s) : s[k].Status = "Won" /\ s[k].QuoteID = qid}
        any     == {k \in 1..Len(s) : s[k].QuoteID = qid}
        quoted_price == s[CHOOSE k \in won : \A j \in won : k <= j].QuotedPrice
        paid_to_date == s[CHOOSE k \in any : \A j \in any : k <= j].DepositPaid
        Match(r)     == r.QuoteID = qid
        coll_history == SelectSeq(c, Match)
        amounts      == [i \in 1..Len(coll_history) |-> coll_history[i].DepositPaid]
        base_offset  == Max2(0, paid_to_date - SumSeq(amounts))
    IN  [i \in 1..Len(coll_history) |->
            LET running == SumSeq(SubSeq(amounts, 1, i))
                total   == Min2(base_offset + running, quoted_price)
            IN  [QuoteID            |-> coll_history[i].QuoteID,
                 DepositPaid        |-> amounts[i],
                 RunningTotal       |-> running,
                 TotalPaidAfterThis |-> total,
                 BalanceAfterThis   |-> Max2(quoted_price - total, 0)]]

\* Lines 601-687 with no button pressed: a Won quote is selected and its
\* summary and Collections History are shown.
ViewCollections(s, selected_quote_id) ==
    /\ pc[s] = "page"
    /\ session_state[s].collection_added_quote = None
    /\ selected_quote_id \in WonQuoteIDs(sales[s])
    /\ run' = [run EXCEPT ![s] =
                  [@ EXCEPT !.path = "history",
                            !.selected = selected_quote_id,
                            !.history = collectionHistory(sales[s], collections[s],
                                                          selected_quote_id)]]
    /\ pc' = [pc EXCEPT ![s] = "end"]
    /\ UNCHANGED <<disk, locked, sales, collections, assignments, tmp,
                   prev_disk, boot_disk, session_state, submits>>

\* Lines 695-700: the ledger row of a new collection; BalanceDue is absent
\* until update_balance_due fills it.
NewCollectionRow(qid, client, amount, status) ==
    [QuoteID     |-> qid,
     Client      |-> client,
     DepositPaid |-> amount,
     BalanceDue  |-> NaN,
     Status      |-> status]

\* Lines 689-710 up to the call of save_data: "Save Collection" was
\* pressed for the selected quote.
SubmitCollection(s, selected_quote_id, deposit_paid_input, status_input) ==
    /\ pc[s] = "page"
    /\ session_state[s].collection_added_quote = None
    /\ selected_quote_id \in WonQuoteIDs(sales[s])
    /\ submits < MaxSubmits
    /\ IF session_state[s].collection_submitted
       THEN \* line 689: the submission is skipped
            /\ run' = [run EXCEPT ![s] = [@ EXCEPT !.path = "collection"]]
            /\ pc' = [pc EXCEPT ![s] = "end"]
            /\ UNCHANGED <<sales, collections, session_state, submits>>
       ELSE /\ session_state' = [session_state EXCEPT ![s].collection_submitted = TRUE]
            /\ IF deposit_paid_input <= 0
               THEN \* "Please enter a collection amount greater than 0.00."
                    /\ run' = [run EXCEPT ![s] =
                                  [@ EXCEPT !.path = "collection", !.rejected = TRUE]]
                    /\ pc' = [pc EXCEPT ![s] = "end"]
                    /\ UNCHANGED <<sales, collections, submits>>
               ELSE LET c1 == Append(collections[s],
                                     NewCollectionRow(selected_quote_id,
                                                      ClientOf(sales[s], selected_quote_id),
                                                      deposit_paid_input, status_input))
                        s2 == sync_deposit_paid(sales[s], c1)
                    IN  /\ sales' = [sales EXCEPT ![s] = s2]
                        /\ submits' = submits + 1
                        /\ IF InvalidIndexError(s2, c1)
                           THEN /\ collections' = [collections EXCEPT ![s] = c1]
                                /\ run' = [run EXCEPT ![s] =
                                              [@ EXCEPT !.path = "collection",
                                                        !.raised = TRUE]]
                                /\ pc' = [pc EXCEPT ![s] = "end"]
                           ELSE /\ collections' = [collections EXCEPT ![s] =
                                                      update_balance_due(s2, c1)]
                                /\ run' = [run EXCEPT ![s] =
                                              [@ EXCEPT !.path = "collection"]]
                                /\ pc' = [pc EXCEPT ![s] = "save"]
    /\ UNCHANGED <<disk, locked, assignments, tmp, prev_disk, boot_disk>>

\* Lines 706-710: save_data has returned.
AfterSaveCollection(s) ==
    /\ pc[s] = "saved"
    /\ run[s].path = "collection"
    /\ IF run[s].ret = "True"
       THEN /\ session_state' = [session_state EXCEPT ![s].collection_added_quote =
                                    Cell(collections[s][Len(collections[s])].QuoteID)]
            /\ run' = [run EXCEPT ![s] = [@ EXCEPT !.success = TRUE]]
       ELSE UNCHANGED <<session_state, run>>
    /\ pc' = [pc EXCEPT ![s] = "end"]
    /\ UNCHANGED <<disk, locked, sales, collections, assignments, tmp,
                   prev_disk, boot_disk, submits>>

----------------------------------------------------------------------------
(* Assignments page, lines 723-819 *)

\* Lines 797-806
NewAssignmentRow(quote_id, client, crew_member, start_date, end_date) ==
    [QuoteID    |-> Cell(quote_id),
     Client     |-> client,
     CrewMember |-> crew_member,
     DaysTaken  |-> end_date - start_date]

\* Mutant: the new row is appended before the form's fields are checked,
\* so a refused submission leaves it in the assignments frame.
SubmitAssignmentAppendsFirst(s, selected, crew_member, start_date, end_date) ==
    /\ pc[s] = "page"
    /\ submits < MaxSubmits
    /\ LET l == load_data(disk)
       IN  /\ selected \in WonQuoteIDs(l.sales) \cup {0}
           /\ sales' = [sales EXCEPT ![s] = l.sales]
           /\ collections' = [collections EXCEPT ![s] = l.collections]
           /\ session_state' = [session_state EXCEPT ![s].assigned = FALSE]
           /\ assignments' = [assignments EXCEPT ![s] =
                  Append(l.assignments,
                         NewAssignmentRow(selected, ClientOf(l.sales, selected),
                                          crew_member, start_date, end_date))]
           /\ IF crew_member = "" \/ selected = 0
              THEN /\ run' = [run EXCEPT ![s] =
                                 [@ EXCEPT !.path = "assignment", !.rejected = TRUE]]
                   /\ pc' = [pc EXCEPT ![s] = "end"]
                   /\ UNCHANGED submits
              ELSE /\ run' = [run EXCEPT ![s] = [@ EXCEPT !.path = "assignment"]]
                   /\ submits' = submits + 1
                   /\ pc' = [pc EXCEPT ![s] = "save"]
    /\ UNCHANGED <<disk, locked, tmp, prev_disk, boot_disk>>

\* Lines 748-809 up to the call of save_data.  The page loads the frames
\* again without reconciling them; an `assigned` flag set by an earlier run
\* is cleared whatever the radio says; "Assign Task" was pressed with
\* quote `selected` chosen (0: the placeholder option).
SubmitAssignment(s, selected, crew_member, start_date, end_date) ==
    /\ pc[s] = "page"
    /\ submits < MaxSubmits
    /\ LET l == load_data(disk)
       IN  /\ selected \in WonQuoteIDs(l.sales) \cup {0}
           /\ sales' = [sales EXCEPT ![s] = l.sales]
           /\ collections' = [collections EXCEPT ![s] = l.collections]
           /\ session_state' = [session_state EXCEPT ![s].assigned = FALSE]
           /\ IF crew_member = "" \/ selected = 0
              THEN \* "Please enter the Crew Member name." / "Please select ..."
                   /\ assignments' = [assignments EXCEPT ![s] = l.assignments]
                   /\ run' = [run EXCEPT ![s] =
                                 [@ EXCEPT !.path = "assignment", !.rejected = TRUE]]
                   /\ pc' = [pc EXCEPT ![s] = "end"]
                   /\ UNCHANGED submits
              ELSE /\ assignments' = [assignments EXCEPT ![s] =
                          Append(l.assignments,
                                 NewAssignmentRow(selected, ClientOf(l.sales, selected),
                                                  crew_member, start_date, end_date))]
                   /\ run' = [run EXCEPT ![s] = [@ EXCEPT !.path = "assignment"]]
                   /\ submits' = submits + 1
                   /\ pc' = [pc EXCEPT ![s] = "save"]
    /\ UNCHANGED <<disk, locked, tmp, prev_disk, boot_disk>>

\* Lines 809-819: the value save_data returned is not looked at.
AfterSaveAssignment(s) ==
    /\ pc[s] = "saved"
    /\ run[s].path = "assignment"
    /\ LET l == load_data(disk)
       IN  /\ sales' = [sales EXCEPT ![s] = l.sales]
           /\ collections' = [collections EXCEPT ![s] = l.collections]
           /\ assignments' = [assignments EXCEPT ![s] = l.assignments]
    /\ session_state' = [session_state EXCEPT ![s].assigned = TRUE]
    /\ run' = [run EXCEPT ![s] = [@ EXCEPT !.loaded = TRUE, !.success = TRUE]]
    /\ pc' = [pc EXCEPT ![s] = "end"]
    /\ UNCHANGED <<disk, locked, tmp, prev_disk, boot_disk, submits>>

----------------------------------------------------------------------------
(* save_data, lines 53-141 *)

SavePcs == {"save", "save_write", "save_replace"}

\* Lines 60-94: the QuoteID column of each frame passed in is rewritten in
\* place (the sales and collections frames hold integers already, the
\* assignments frame holds what was read); copies are taken for writing and
\* the temporary file is created.
SaveBegin(s) ==
    /\ pc[s] = "save"
    /\ assignments' = [assignments EXCEPT ![s] = NormalizeQuoteID(@)]
    /\ tmp' = [tmp EXCEPT ![s] = <<>>]
    /\ prev_disk' = [prev_disk EXCEPT ![s] = disk]
    /\ pc' = [pc EXCEPT ![s] = "save_write"]
    /\ UNCHANGED <<disk, locked, sales, collections, run, boot_disk, session_state, submits>>

\* Mutant: the sheets are written straight into data.xlsx, no temporary
\* workbook stands between the writer and the canonical file.
SaveWriteSheetInPlace(s) ==
    /\ pc[s] = "save_write"
    /\ Len(tmp[s]) < 3
    /\ LET k == Len(tmp[s]) + 1
           sheet == SheetToWrite(k, sales[s], collections[s], assignments[s])
       IN  /\ tmp' = [tmp EXCEPT ![s] = Append(@, sheet)]
           /\ disk' = IF k = 1 THEN [disk EXCEPT !.sales = sheet]
                      ELSE IF k = 2 THEN [disk EXCEPT !.collections = sheet]
                      ELSE [disk EXCEPT !.assignments = sheet]
    /\ pc' = [pc EXCEPT ![s] = IF Len(tmp[s]) = 2 THEN "save_replace" ELSE "save_write"]
    /\ UNCHANGED <<locked, sales, collections, assignments, run,
                   prev_disk, boot_disk, session_state, submits>>

\* Lines 96-99: the next sheet is written to the temporary workbook.
SaveWriteSheet(s) ==
    /\ pc[s] = "save_write"
    /\ Len(tmp[s]) < 3
    /\ tmp' = [tmp EXCEPT ![s] =
                  Append(@, SheetToWrite(Len(@) + 1, sales[s], collections[s],
                                         assignments[s]))]
    /\ pc' = [pc EXCEPT ![s] = IF Len(tmp[s]) = 2 THEN "save_replace" ELSE "save_write"]
    /\ UNCHANGED <<disk, locked, sales, collections, assignments, run,
                   prev_disk, boot_disk, session_state, submits>>

\* Lines 135-141: creating or writing the temporary workbook raised; the
\* error is shown, the temporary file is removed, False is returned.
SaveWriteFails(s) ==
    /\ pc[s] = "save_write"
    /\ tmp' = [tmp EXCEPT ![s] = <<>>]
    /\ run' = [run EXCEPT ![s] = [@ EXCEPT !.ret = "Exception"]]
    /\ pc' = [pc EXCEPT ![s] = "saved"]
    /\ UNCHANGED <<disk, locked, sales, collections, assignments,
                   prev_disk, boot_disk, session_state, submits>>

\* Mutant: a PermissionError is answered by calling os.replace again, up to
\* three calls in all.
SaveReplaceRetries(s) ==
    /\ pc[s] = "save_replace"
    /\ IF locked
       THEN /\ run' = [run EXCEPT ![s] =
                          [@ EXCEPT !.ret = IF @ = "none" /\ run[s].attempts < 2
                                            THEN "none" ELSE "PermissionError",
                                    !.attempts = @ + 1]]
            /\ pc' = [pc EXCEPT ![s] = IF run[s].attempts < 2 THEN "save_replace"
                                       ELSE "saved"]
            /\ tmp' = [tmp EXCEPT ![s] = IF run[s].attempts < 2 THEN @ ELSE <<>>]
            /\ UNCHANGED disk
       ELSE /\ disk' = BookOf(tmp[s])
            /\ run' = [run EXCEPT ![s] = [@ EXCEPT !.ret = "True", !.attempts = @ + 1]]
            /\ pc' = [pc EXCEPT ![s] = "saved"]
            /\ tmp' = [tmp EXCEPT ![s] = <<>>]
    /\ UNCHANGED <<locked, sales, collections, assignments,
                   prev_disk, boot_disk, session_state, submits>>

\* Mutant: the replace keeps the rows data.xlsx holds and adds the rows the
\* frames gained since the boot.
SaveReplaceMerging(s) ==
    /\ pc[s] = "save_replace"
    /\ IF locked
       THEN /\ run' = [run EXCEPT ![s] =
                          [@ EXCEPT !.ret = "PermissionError", !.attempts = @ + 1]]
            /\ UNCHANGED disk
       ELSE /\ disk' =
                 [sales |-> disk.sales \o
                     SubSeq(tmp[s][1], Len(boot_disk[s].sales) + 1, Len(tmp[s][1])),
                  collections |-> disk.collections \o
                     SubSeq(tmp[s][2], Len(boot_disk[s].collections) + 1, Len(tmp[s][2])),
                  assignments |-> disk.assignments \o
                     SubSeq(tmp[s][3], Len(boot_disk[s].assignments) + 1, Len(tmp[s][3]))]
            /\ run' = [run EXCEPT ![s] = [@ EXCEPT !.ret = "True", !.attempts = @ + 1]]
    /\ tmp' = [tmp EXCEPT ![s] = <<>>]
    /\ pc' = [pc EXCEPT ![s] = "saved"]
    /\ UNCHANGED <<locked, sales, collections, assignments,
                   prev_disk, boot_disk, session_state, submits>>

\* Lines 131-141: os.replace(tmp_path, data.xlsx), called once.  It raises
\* PermissionError while data.xlsx is held open; otherwise the temporary
\* workbook becomes data.xlsx and True is returned.
SaveReplace(s) ==
    /\ pc[s] = "save_replace"
    /\ IF locked
       THEN /\ run' = [run EXCEPT ![s] =
                          [@ EXCEPT !.ret = "PermissionError", !.attempts = @ + 1]]
            /\ UNCHANGED disk
       ELSE /\ disk' = BookOf(tmp[s])
            /\ run' = [run EXCEPT ![s] = [@ EXCEPT !.ret = "True", !.attempts = @ + 1]]
    /\ tmp' = [tmp EXCEPT ![s] = <<>>]
    /\ pc' = [pc EXCEPT ![s] = "saved"]
    /\ UNCHANGED <<locked, sales, collections, assignments,
                   prev_disk, boot_disk, session_state, submits>>

----------------------------------------------------------------------------
(* One session using the app *)

Next ==
    \/ Lock
    \/ Unlock
    \/ \E s \in Users :
        \/ Reconnect(s)
        \/ Boot(s)
        \/ EndRun(s)
        \/ Dashboard(s)
        \/ \E add_another \in {"No", "Yes"} : SalesLogBanner(s, add_another)
        \/ \E area \in Areas, client, sales_rep, job_type \in TextInputs,
              quoted_price \in PriceInputs, deposit_paid \in DepositInputs,
              status \in SaleStatusInputs :
                SubmitSale(s, area, client, sales_rep, job_type, quoted_price,
                           deposit_paid, status)
        \/ AfterSaveSale(s)
        \/ CollectionsBanner(s)
        \/ \E selected_quote_id \in QuoteIDs(sales[s]) :
              ViewCollections(s, selected_quote_id)
        \/ \E selected_quote_id \in QuoteIDs(sales[s]),
              deposit_paid_input \in AmountInputs,
              status_input \in CollectionStatusInputs :
                SubmitCollection(s, selected_quote_id, deposit_paid_input, status_input)
        \/ AfterSaveCollection(s)
        \/ \E selected \in QuoteIDs(load_data(disk).sales) \cup {0},
              crew_member \in TextInputs, start_date \in StartDateInputs,
              end_date \in EndDateInputs :
                SubmitAssignment(s, selected, crew_member, start_date, end_date)
        \/ AfterSaveAssignment(s)
        \/ SaveBegin(s)
        \/ SaveWriteSheet(s)
        \/ SaveWriteFails(s)
        \/ SaveReplace(s)

Spec == Init /\ [][Next]_vars

----------------------------------------------------------------------------
(* Properties of the reconciliation *)

\* The frames of session s are those an add-sale or add-collection handler
\* has reconciled (lines 549-550, 704-705) and not yet replaced.
AfterMutation(s) ==
    /\ pc[s] \in SavePcs \cup {"saved"}
    /\ run[s].path \in {"sale", "collection"}

\* The frames of session s come out of sync_deposit_paid followed by
\* update_balance_due: after the boot, or after a mutation.
Reconciled(s) == pc[s] = "page" \/ AfterMutation(s)

\* The sum of the payments the ledger rows of quote qid record.
RECURSIVE LedgerTotal(_, _)
LedgerTotal(c, qid) ==
    IF c = <<>> THEN 0
    ELSE (IF Head(c).QuoteID = qid THEN Head(c).DepositPaid ELSE 0)
         + LedgerTotal(Tail(c), qid)

\* C1 (conservation): after an add-sale or add-collection handler has
\* reconciled, every sale's DepositPaid is the sum of the DepositPaid of
\* the ledger rows with its QuoteID, 0 when there are none, whatever was
\* cached on the sale before.
Conservation ==
    \A s \in Sessions :
        AfterMutation(s) =>
            \A i \in 1..Len(sales[s]) :
                sales[s][i].DepositPaid = LedgerTotal(collections[s], sales[s][i].QuoteID)

\* A collection of 700 was appended for a sale whose workbook row cached 7
\* while its ledger held 400: the sale now carries 1100.
ConservationWitness ==
    \E s \in Sessions :
        /\ AfterMutation(s)
        /\ run[s].path = "collection"
        /\ \E i \in 1..Len(sales[s]) :
              /\ i <= Len(boot_disk[s].sales)
              /\ boot_disk[s].sales[i].DepositPaid = Cell(7)
              /\ sales[s][i].DepositPaid = 1100

\* C2 (broadcast balance): after roll-up and balance recomputation, every
\* ledger row whose QuoteID is that of a sale carries
\* max(QuotedPrice - DepositPaid, 0) of that sale, so the rows of one quote
\* all carry the same BalanceDue.
BroadcastBalance ==
    \A s \in Sessions :
        Reconciled(s) =>
            \A i \in 1..Len(collections[s]) : \A k \in 1..Len(sales[s]) :
                collections[s][i].QuoteID = sales[s][k].QuoteID =>
                    collections[s][i].BalanceDue =
                        Cell(Max2(sales[s][k].QuotedPrice - sales[s][k].DepositPaid, 0))

\* Two ledger rows of one quote record different payments and carry the
\* same positive BalanceDue.
BroadcastBalanceWitness ==
    \E s \in Sessions :
        /\ Reconciled(s)
        /\ \E i, j \in 1..Len(collections[s]) :
              /\ i # j
              /\ collections[s][i].QuoteID = collections[s][j].QuoteID
              /\ collections[s][i].QuoteID \in QuoteIDs(sales[s])
              /\ collections[s][i].DepositPaid # collections[s][j].DepositPaid
              /\ collections[s][i].BalanceDue = collections[s][j].BalanceDue
              /\ collections[s][i].BalanceDue # Cell(0)

\* C9 (non-negativity): whatever collections are appended, every ledger row
\* of reconciled frames, and of the workbook a collection was saved to,
\* carries a BalanceDue >= 0, and the rows of a quote whose ledger sums to
\* more than its QuotedPrice carry exactly 0.
NonNegativeBalance ==
    \A s \in Sessions :
        /\ Reconciled(s) =>
              \A i \in 1..Len(collections[s]) :
                  /\ collections[s][i].BalanceDue # NaN
                  /\ collections[s][i].BalanceDue[1] >= 0
                  /\ \A k \in 1..Len(sales[s]) :
                        (/\ sales[s][k].QuoteID = collections[s][i].QuoteID
                         /\ LedgerTotal(collections[s], sales[s][k].QuoteID)
                                > sales[s][k].QuotedPrice)
                        => collections[s][i].BalanceDue = Cell(0)
        /\ (pc[s] = "saved" /\ run[s].path = "collection" /\ run[s].ret = "True") =>
              \A i \in 1..Len(disk.collections) :
                  /\ disk.collections[i].BalanceDue # NaN
                  /\ disk.collections[i].BalanceDue[1] >= 0

\* A collection was appended to a quote that is now over-paid, and its
\* rows carry 0.
NonNegativeBalanceWitness ==
    \E s \in Sessions :
        /\ AfterMutation(s)
        /\ run[s].path = "collection"
        /\ \E i \in 1..Len(collections[s]) : \E k \in 1..Len(sales[s]) :
              /\ sales[s][k].QuoteID = collections[s][i].QuoteID
              /\ sales[s][k].DepositPaid > sales[s][k].QuotedPrice
              /\ collections[s][i].BalanceDue = Cell(0)

----------------------------------------------------------------------------
(* Properties of the identifier allocation *)

\* save_data is being or has been called for an added sale: the last row of
\* the sales frame is the new sale, the rows before it existed already.
SaleAdded(s) ==
    /\ pc[s] \in SavePcs \cup {"saved"}
    /\ run[s].path = "sale"

InRangeOf(area, q) ==
    IF area = "Toms River" THEN q >= TomsRiverFloor /\ q < ManahawkinFloor
    ELSE q >= ManahawkinFloor /\ q < FallbackFloor

\* C3 (unique allocation), as claimed: the QuoteID handed to a new sale is
\* none of the existing sales' QuoteIDs and is greater than every existing
\* one in its area's range, so the sales QuoteIDs stay pairwise different
\* through any sequence of add-sale operations.
AllocatedIdIsFresh ==
    \A s \in Sessions :
        SaleAdded(s) =>
            /\ \A i \in 1..(Len(sales[s]) - 1) :
                  /\ sales[s][i].QuoteID # run[s].new_id
                  /\ InRangeOf(run[s].area, sales[s][i].QuoteID)
                        => sales[s][i].QuoteID < run[s].new_id
            /\ UniqueQuoteIDs(sales[s])

\* C4 (partition containment), as claimed: a Toms River sale gets a QuoteID
\* in [1000, 2000) and a Manahawkin sale one in [2000, 3000), whatever the
\* existing sales are.
PartitionContainment ==
    \A s \in Sessions :
        SaleAdded(s) => InRangeOf(run[s].area, run[s].new_id)

\* C13 (allocator repeatability and succession), as claimed: asked again
\* for the sales a new sale was allocated from, generate_unique_quote_id
\* returns the same QuoteID n, and asked for the same area once the sale
\* with QuoteID n is in the frame, it returns n + 1.
AllocatorSuccession ==
    \A s \in Sessions :
        SaleAdded(s) =>
            /\ generate_unique_quote_id(run[s].area,
                                        SubSeq(sales[s], 1, Len(sales[s]) - 1))
                 = run[s].new_id
            /\ generate_unique_quote_id(run[s].area, sales[s]) = run[s].new_id + 1

----------------------------------------------------------------------------
(* Properties of save_data and of its callers *)

\* The workbook that holds the frames of session s.
FramesBook(s) ==
    BookOf(<<SheetToWrite(1, sales[s], collections[s], assignments[s]),
             SheetToWrite(2, sales[s], collections[s], assignments[s]),
             SheetToWrite(3, sales[s], collections[s], assignments[s])>>)

\* C5 (atomic save): while save_data builds the temporary workbook, and after
\* it has failed at any step, data.xlsx is what it was when save_data was
\* entered; after it has succeeded data.xlsx holds the three frames passed
\* in.  data.xlsx never holds sheets of both.
AtomicSave ==
    \A s \in Sessions :
        /\ pc[s] \in {"save_write", "save_replace"} => disk = prev_disk[s]
        /\ (pc[s] = "saved" /\ run[s].ret # "True") => disk = prev_disk[s]
        /\ (pc[s] = "saved" /\ run[s].ret = "True") => disk = FramesBook(s)

\* The replace of data.xlsx failed for a save whose frames differ from the
\* workbook, and the workbook is as before.
AtomicSaveWitness ==
    \E s \in Sessions :
        /\ pc[s] = "saved"
        /\ run[s].ret = "PermissionError"
        /\ disk = prev_disk[s]
        /\ FramesBook(s).sales # disk.sales
        /\ FramesBook(s).collections # disk.collections

FailedSaveBlocksReload ==
    \A s \in Sessions :
        (pc[s] = "end" /\ run[s].ret \in {"PermissionError", "Exception"}) =>
            /\ ~run[s].loaded
            /\ ~run[s].success
            /\ session_state[s].sale_added = None
            /\ session_state[s].collection_added_quote = None
            /\ ~session_state[s].assigned

\* C8 (save_data leaves the caller's frames alone), as claimed: no step of
\* save_data changes a cell of the three frames passed to it.
SaveKeepsCallerFrames ==
    [][\A s \in Sessions :
          pc[s] \in SavePcs =>
              /\ sales'[s] = sales[s]
              /\ collections'[s] = collections[s]
              /\ assignments'[s] = assignments[s]]_vars

----------------------------------------------------------------------------
(* Two sessions adding sales at the same time *)

\* Both sessions run the script against the one data.xlsx; nothing orders
\* the steps of one run with respect to those of the other.
NextRace ==
    \E s \in Sessions :
        \/ Boot(s)
        \/ \E area \in Areas, quoted_price \in PriceInputs,
              deposit_paid \in DepositInputs, status \in SaleStatusInputs :
                SubmitSale(s, area, "Ann", "Ann", "Ann", quoted_price,
                           deposit_paid, status)
        \/ SaveBegin(s)
        \/ SaveWriteSheet(s)
        \/ SaveReplace(s)
        \/ AfterSaveSale(s)
        \/ EndRun(s)

SpecRace == Init /\ [][NextRace]_vars

\* Sessions s and t have each added a sale in the same area, starting from
\* the same data.xlsx, and each has been told that its sale was saved.
BothAdded(s, t) ==
    /\ s # t
    /\ pc[s] = "end" /\ pc[t] = "end"
    /\ run[s].path = "sale" /\ run[t].path = "sale"
    /\ run[s].ret = "True" /\ run[t].ret = "True"
    /\ run[s].area = run[t].area
    /\ boot_disk[s] = boot_disk[t]

RowsWithId(rows, qid) == {i \in 1..Len(rows) : rows[i].QuoteID = Cell(qid)}

\* C10 (concurrent-write race): whenever two sessions have added a sale in
\* the same area from the same loaded workbook and both saves returned
\* success, both were handed the same QuoteID, both carry the success flag,
\* and data.xlsx holds one sale more than the workbook they loaded: one of
\* the two sales is lost and nothing reported it.
LostUpdate ==
    \A s, t \in Sessions :
        BothAdded(s, t) =>
            /\ run[s].new_id = run[t].new_id
            /\ run[s].success /\ run[t].success
            /\ session_state[s].sale_added = Cell(run[s].new_id)
            /\ session_state[t].sale_added = Cell(run[t].new_id)
            /\ Len(disk.sales) = Len(boot_disk[s].sales) + 1
            /\ Cardinality(RowsWithId(disk.sales, run[s].new_id)) = 1

\* The race has happened: two sales were reported added under one QuoteID
\* and the workbook holds a single row for it.
LostUpdateWitness ==
    \E s, t \in Sessions :
        /\ BothAdded(s, t)
        /\ run[s].new_id = run[t].new_id
        /\ Cardinality(RowsWithId(disk.sales, run[s].new_id)) = 1
        /\ Len(disk.sales) = Len(boot_disk[s].sales) + 1

----------------------------------------------------------------------------
(* Properties of the ledger *)

\* What a ledger row records: QuoteID, Client, amount and Status, without
\* the derived BalanceDue.
LedgerEntries(c) ==
    [i \in 1..Len(c) |-> <<c[i].QuoteID, c[i].Client, c[i].DepositPaid, c[i].Status>>]

\* The ledger entries data.xlsx holds, as load_data reads them.
DiskLedger(book) == LedgerEntries(load_data(book).collections)

IsPrefix(a, b) == Len(a) <= Len(b) /\ SubSeq(b, 1, Len(a)) = a

\* C11 (append-only ledger): through add sale, add collection, add
\* assignment, save and load, the ledger only grows at its end.  The entries
\* data.xlsx holds stay where they are with their QuoteID, Client, amount
\* and Status, and so do the entries of a run's collections frame, which
\* start as those of data.xlsx; a step adds at most one row, and an added
\* collection adds exactly one, as the last row.  Only BalanceDue changes.
AppendOnlyLedger ==
    [][/\ IsPrefix(DiskLedger(disk), DiskLedger(disk'))
       /\ Len(disk'.collections) <= Len(disk.collections) + 1
       /\ \A s \in Sessions :
            /\ (pc[s] = "idle" /\ pc'[s] = "page") =>
                   LedgerEntries(collections'[s]) = DiskLedger(disk)
            /\ (pc[s] # "idle" /\ pc'[s] # "idle") =>
                   /\ IsPrefix(LedgerEntries(collections[s]),
                               LedgerEntries(collections'[s]))
                   /\ Len(collections'[s]) <= Len(collections[s]) + 1
            /\ (pc[s] = "page" /\ pc'[s] = "save" /\ run'[s].path = "collection") =>
                   /\ Len(collections'[s]) = Len(collections[s]) + 1
                   /\ collections'[s][Len(collections'[s])].DepositPaid > 0]_vars

\* A collection was added to a ledger that held a row already and was
\* saved: data.xlsx holds one row more, the old row kept its entry and got
\* a new BalanceDue.
AppendOnlyLedgerWitness ==
    \E s \in Sessions :
        /\ pc[s] = "saved"
        /\ run[s].path = "collection"
        /\ run[s].ret = "True"
        /\ Len(prev_disk[s].collections) >= 1
        /\ Len(disk.collections) = Len(prev_disk[s].collections) + 1
        /\ IsPrefix(DiskLedger(prev_disk[s]), DiskLedger(disk))
        /\ disk.collections[1].BalanceDue # prev_disk[s].collections[1].BalanceDue

----------------------------------------------------------------------------
(* The app started on any workbook: load, reconcile, and the handlers up   *)
(* to their call of save_data                                              *)

\* Amounts of the worked example: collections of 250, 750 and 50.
ScenarioAmounts == {250, 750, 50}

\* SalesLog rows data.xlsx may hold: a quote at the top of its range whose
\* cached DepositPaid no ledger backs, a row of blank or unparseable cells,
\* the quotes of the worked examples (QuotedPrice 1000 and 500), and a row
\* whose stored amounts are negative.
AnySaleRows ==
    {[QuoteID |-> Cell(1999), Client |-> "Ann", QuotedPrice |-> Cell(300),
      Status |-> "Won", DepositPct |-> NaN, DepositPaid |-> Cell(7)],
     [QuoteID |-> NaN, Client |-> "Bo", QuotedPrice |-> NaN,
      Status |-> "Won", DepositPct |-> NaN, DepositPaid |-> NaN],
     [QuoteID |-> Cell(1500), Client |-> "Cy", QuotedPrice |-> Cell(1000),
      Status |-> "Won", DepositPct |-> Cell(0), DepositPaid |-> Cell(0)],
     [QuoteID |-> Cell(1600), Client |-> "Di", QuotedPrice |-> Cell(500),
      Status |-> "Won", DepositPct |-> Cell(0), DepositPaid |-> Cell(0)],
     [QuoteID |-> Cell(2500), Client |-> "Ed", QuotedPrice |-> Cell(-50),
      Status |-> "Won", DepositPct |-> NaN, DepositPaid |-> Cell(-7)]}

\* Collections rows data.xlsx may hold: a payment with a stored negative
\* BalanceDue, a row of blank cells, a payment for QuoteID 1000, a negative
\* amount.
AnyCollectionRows ==
    {[QuoteID |-> Cell(1999), Client |-> "Ann", DepositPaid |-> Cell(400),
      BalanceDue |-> Cell(-5), Status |-> "Pending"],
     [QuoteID |-> NaN, Client |-> "Bo", DepositPaid |-> NaN,
      BalanceDue |-> NaN, Status |-> "Pending"],
     [QuoteID |-> Cell(1000), Client |-> "Flo", DepositPaid |-> Cell(300),
      BalanceDue |-> Cell(40), Status |-> "Partially Paid"],
     [QuoteID |-> Cell(2500), Client |-> "Ed", DepositPaid |-> Cell(-30),
      BalanceDue |-> Cell(0), Status |-> "Pending"]}

\* A ledger row of the worked example.
ScenarioRow(amount, balance) ==
    [QuoteID |-> Cell(1500), Client |-> "Cy", DepositPaid |-> Cell(amount),
     BalanceDue |-> Cell(balance), Status |-> "Partially Paid"]

\* The ledger of the worked example after its first and after its second
\* collection, the latter also behind a payment for another quote.
ScenarioLedgers ==
    {<<ScenarioRow(250, 750)>>,
     <<ScenarioRow(250, 0), ScenarioRow(750, 0)>>,
     <<[QuoteID |-> Cell(1999), Client |-> "Ann", DepositPaid |-> Cell(400),
        BalanceDue |-> Cell(0), Status |-> "Paid"],
       ScenarioRow(250, 0), ScenarioRow(750, 0)>>}

AtMostTwo(rows) == AtMostOne(rows) \cup {<<r, q>> : r \in rows, q \in rows}

AnyBooks ==
    {[sales |-> s, collections |-> c, assignments |-> a] :
        s \in AtMostTwo(AnySaleRows),
        c \in AtMostTwo(AnyCollectionRows) \cup ScenarioLedgers,
        a \in AtMostOne(InitAssignmentRows)}

InitAnyBook ==
    /\ disk \in AnyBooks
    /\ locked = FALSE
    /\ pc = [s \in Sessions |-> "idle"]
    /\ sales = [s \in Sessions |-> <<>>]
    /\ collections = [s \in Sessions |-> <<>>]
    /\ assignments = [s \in Sessions |-> <<>>]
    /\ tmp = [s \in Sessions |-> <<>>]
    /\ run = [s \in Sessions |-> NoRun]
    /\ prev_disk = [s \in Sessions |-> EmptyBook]
    /\ boot_disk = [s \in Sessions |-> EmptyBook]
    /\ session_state = [s \in Sessions |-> FreshSessionState]
    /\ submits = 0

\* One session: the boot and each page's handler, up to where it hands the
\* frames to save_data.
NextReconcile ==
    \E s \in Users :
        \/ Boot(s)
        \/ EndRun(s)
        \/ Dashboard(s)
        \/ \E selected_quote_id \in QuoteIDs(sales[s]) :
              ViewCollections(s, selected_quote_id)
        \/ \E area \in Areas, client \in TextInputs,
              quoted_price \in PriceInputs, deposit_paid \in DepositInputs,
              status \in SaleStatusInputs :
                SubmitSale(s, area, client, "Ann", "Ann", quoted_price,
                           deposit_paid, status)
        \/ \E selected_quote_id \in QuoteIDs(sales[s]),
              deposit_paid_input \in AmountInputs \cup ScenarioAmounts,
              status_input \in CollectionStatusInputs :
                SubmitCollection(s, selected_quote_id, deposit_paid_input, status_input)
        \/ \E selected \in QuoteIDs(load_data(disk).sales) \cup {0},
              crew_member \in TextInputs, start_date \in StartDateInputs,
              end_date \in EndDateInputs :
                SubmitAssignment(s, selected, crew_member, start_date, end_date)

SpecReconcile == InitAnyBook /\ [][NextReconcile]_vars

----------------------------------------------------------------------------
(* Properties of the derivations, on any workbook *)

\* C12 (idempotent reconciliation): applied to frames that came out of it,
\* with the same ledger, sync_deposit_paid returns every sale with the same
\* DepositPaid and Deposit%, and update_balance_due returns every ledger
\* row with the same BalanceDue.
IdempotentReconciliation ==
    \A s \in Sessions :
        Reconciled(s) =>
            LET again == sync_deposit_paid(sales[s], collections[s])
                due   == update_balance_due(again, collections[s])
            IN  /\ \A i \in 1..Len(sales[s]) :
                      /\ again[i].DepositPaid = sales[s][i].DepositPaid
                      /\ again[i].DepositPct = sales[s][i].DepositPct
                /\ \A i \in 1..Len(collections[s]) :
                      due[i].BalanceDue = collections[s][i].BalanceDue

\* Reconciliation changed what data.xlsx stored: a sale's cached DepositPaid
\* was replaced by a different ledger sum, and a ledger row's BalanceDue by
\* a different balance.
IdempotentReconciliationWitness ==
    \E s \in Sessions :
        /\ pc[s] = "page"
        /\ \E i \in 1..Len(sales[s]) :
              /\ sales[s][i].DepositPaid # 0
              /\ Cell(sales[s][i].DepositPaid) # boot_disk[s].sales[i].DepositPaid
        /\ \E i \in 1..Len(collections[s]) :
              /\ collections[s][i].BalanceDue # boot_disk[s].collections[i].BalanceDue
              /\ collections[s][i].BalanceDue # Cell(0)

----------------------------------------------------------------------------
(* Properties of load_data, on any workbook *)

\* The frames of session s are those load_data returned at line 748, with
\* the new assignment as the last row of the assignments frame.
JustLoaded(s) == pc[s] = "save" /\ run[s].path = "assignment"

\* C14 (QuoteID coercion on load), as claimed: in each of the three frames
\* load_data returns, the QuoteID of a row is the integer its cell holds,
\* and 0 where the cell is blank or not a number.
LoadCoercesQuoteID ==
    \A s \in Sessions :
        JustLoaded(s) =>
            /\ \A i \in 1..Len(disk.sales) :
                  sales[s][i].QuoteID = fillna(disk.sales[i].QuoteID, 0)
            /\ \A i \in 1..Len(disk.collections) :
                  collections[s][i].QuoteID = fillna(disk.collections[i].QuoteID, 0)
            /\ \A i \in 1..Len(disk.assignments) :
                  assignments[s][i].QuoteID = Cell(fillna(disk.assignments[i].QuoteID, 0))

\* C15 (non-negative amounts after load), as claimed: in the frames
\* load_data returns, QuotedPrice and DepositPaid of every sale and
\* DepositPaid of every ledger row are >= 0, and 0 where the cell is blank
\* or not a number.
LoadedAmountsNonNegative ==
    \A s \in Sessions :
        JustLoaded(s) =>
            /\ \A i \in 1..Len(disk.sales) :
                  /\ sales[s][i].QuotedPrice >= 0
                  /\ sales[s][i].DepositPaid >= 0
                  /\ disk.sales[i].QuotedPrice = NaN => sales[s][i].QuotedPrice = 0
                  /\ disk.sales[i].DepositPaid = NaN => sales[s][i].DepositPaid = 0
            /\ \A i \in 1..Len(disk.collections) :
                  /\ collections[s][i].DepositPaid >= 0
                  /\ disk.collections[i].DepositPaid = NaN =>
                        collections[s][i].DepositPaid = 0

----------------------------------------------------------------------------
(* Properties of the handlers, on any workbook *)

\* "Add Sale" with all fields filled and initial deposit d, where the
\* handler got through its reconciliation.
SaleAddedWith(s, d) ==
    /\ pc[s] = "page"
    /\ pc'[s] = "save"
    /\ \E area \in Areas, quoted_price \in PriceInputs, status \in SaleStatusInputs :
          SubmitSale(s, area, "Ann", "Ann", "Ann", quoted_price, d, status)

\* C16 (add sale with initial deposit), as claimed: for d > 0 one ledger row
\* with the new QuoteID and amount d is appended, for d = 0 none; in both
\* cases the reconciled new sale carries DepositPaid = d and the ledger rows
\* of its QuoteID carry max(QuotedPrice - d, 0), whatever the three frames
\* held before.
AddSaleDepositIsInitial ==
    [][\A s \in Sessions : \A d \in DepositInputs :
          SaleAddedWith(s, d) =>
              LET new == sales'[s][Len(sales'[s])]
                  n   == Len(collections[s])
              IN  /\ new.QuoteID = run'[s].new_id
                  /\ IF d > 0
                     THEN /\ Len(collections'[s]) = n + 1
                          /\ collections'[s][n + 1].QuoteID = new.QuoteID
                          /\ collections'[s][n + 1].DepositPaid = d
                     ELSE Len(collections'[s]) = n
                  /\ LedgerEntries(SubSeq(collections'[s], 1, n))
                        = LedgerEntries(collections[s])
                  /\ new.DepositPaid = d
                  /\ \A i \in 1..Len(collections'[s]) :
                        collections'[s][i].QuoteID = new.QuoteID =>
                            collections'[s][i].BalanceDue
                                = Cell(Max2(new.QuotedPrice - d, 0))]_vars

\* C17 (referential gaps are tolerated): a ledger row whose QuoteID no sale
\* carries does not make the reconciliation fail (where it raised, two
\* sales carry one QuoteID); in reconciled frames such a row carries
\* BalanceDue 0 and every sale carries the sum of the ledger rows of its own
\* QuoteID only.
ReferentialGapsTolerated ==
    \A s \in Sessions :
        /\ run[s].raised => ~UniqueQuoteIDs(sales[s])
        /\ Reconciled(s) =>
              /\ \A i \in 1..Len(collections[s]) :
                    collections[s][i].QuoteID \notin QuoteIDs(sales[s]) =>
                        collections[s][i].BalanceDue = Cell(0)
              /\ \A k \in 1..Len(sales[s]) :
                    sales[s][k].DepositPaid
                        = LedgerTotal(collections[s], sales[s][k].QuoteID)

\* Frames were reconciled whose ledger holds a payment for a quote no sale
\* carries, stored with a BalanceDue other than 0, next to a payment of a
\* sale: the first row carries 0 now and the sale only its own payment.
ReferentialGapsToleratedWitness ==
    \E s \in Sessions :
        /\ Reconciled(s)
        /\ \E i, j \in 1..Len(boot_disk[s].collections) : \E k \in 1..Len(sales[s]) :
              /\ collections[s][i].QuoteID \notin QuoteIDs(sales[s])
              /\ collections[s][i].DepositPaid > 0
              /\ boot_disk[s].collections[i].BalanceDue \notin {NaN, Cell(0)}
              /\ collections[s][i].BalanceDue = Cell(0)
              /\ collections[s][j].QuoteID = sales[s][k].QuoteID
              /\ sales[s][k].DepositPaid = collections[s][j].DepositPaid
              /\ sales[s][k].DepositPaid > 0

----------------------------------------------------------------------------
(* Properties of the forms' validation *)

\* C18 (a refused submission blocks the mutation): when a form's validation
\* refuses a submission (Add Sale with an empty Client, Sales Rep or Job
\* Type; Save Collection with an amount <= 0; Assign Task with no crew
\* member or no quote selected), data.xlsx is unchanged, save_data is not
\* called, and no frame gains or changes a row: the sales and collections
\* pages leave the three frames as they are, the Assignments page leaves
\* them as its load_data of line 748 read them from data.xlsx.
ValidationBlocksMutation ==
    [][\A s \in Sessions :
          (run'[s].rejected /\ ~run[s].rejected) =>
              /\ disk' = disk
              /\ pc'[s] = "end"
              /\ run'[s].ret = "none" /\ run'[s].attempts = 0
              /\ submits' = submits
              /\ tmp'[s] = tmp[s]
              /\ IF run'[s].path = "assignment"
                 THEN /\ sales'[s] = load_data(disk).sales
                      /\ collections'[s] = load_data(disk).collections
                      /\ assignments'[s] = load_data(disk).assignments
                      /\ Len(sales'[s]) = Len(sales[s])
                      /\ Len(collections'[s]) = Len(collections[s])
                      /\ Len(assignments'[s]) = Len(assignments[s])
                 ELSE /\ sales'[s] = sales[s]
                      /\ collections'[s] = collections[s]
                      /\ assignments'[s] = assignments[s]]_vars

\* Each of the three forms has refused a submission at some time: the
\* collection form set its flag, and the run at hand ends on a refusal of a
\* sale or of an assignment, with data.xlsx as the run's boot read it.
ValidationBlocksMutationWitness ==
    \E s \in Sessions :
        /\ pc[s] = "end"
        /\ run[s].rejected
        /\ run[s].path \in {"sale", "assignment"}
        /\ run[s].ret = "none"
        /\ session_state[s].collection_submitted
        /\ submits = 0
        /\ disk = boot_disk[s]
        /\ sales[s] # <<>>

----------------------------------------------------------------------------
(* Properties of the roll-up's numbers, on any workbook *)

\* The amounts of the ledger rows of quote qid, in ledger order.
LedgerAmounts(c, qid) ==
    LET Match(r) == r.QuoteID = qid
        rows == SelectSeq(c, Match)
    IN  [i \in 1..Len(rows) |-> rows[i].DepositPaid]

\* p hundredths of a percent is total / price * 100 rounded to two places:
\* no other multiple of 0.01 is nearer.
IsRoundedPercent(p, total, price) ==
    LET diff == p * price - total * 10000
    IN  2 * (IF diff >= 0 THEN diff ELSE -diff) <= price

\* Sale, ledger rows of its quote: DepositPaid, Deposit% (in hundredths) and
\* BalanceDue are as given.
Carries(sale, c, paid, percent, balance) ==
    /\ sale.DepositPaid = paid
    /\ sale.DepositPct = Cell(percent)
    /\ Balance(sale) = balance
    /\ \A i \in 1..Len(c) :
          c[i].QuoteID = sale.QuoteID => c[i].BalanceDue = Cell(balance)

\* C19 (Deposit% after the roll-up): in reconciled frames every sale
\* carries round(total paid / QuotedPrice * 100, 2) when QuotedPrice > 0 and
\* 0 otherwise, with no cap at 100.  For QuotedPrice 1000 the ledgers
\* 250; 250, 750; 250, 750, 50 give (DepositPaid, Deposit%, BalanceDue) =
\* (250, 25, 750), (1000, 100, 0), (1050, 105, 0), and for QuotedPrice 500
\* an empty ledger gives (0, 0, 500).
DepositPercentAfterRollup ==
    \A s \in Sessions :
        Reconciled(s) =>
            \A k \in 1..Len(sales[s]) :
                LET sale    == sales[s][k]
                    amounts == LedgerAmounts(collections[s], sale.QuoteID)
                    total   == SumSeq(amounts)
                IN  /\ sale.DepositPct # NaN
                    /\ IF sale.QuotedPrice > 0
                       THEN IsRoundedPercent(sale.DepositPct[1], total, sale.QuotedPrice)
                       ELSE sale.DepositPct = Cell(0)
                    /\ (sale.QuotedPrice = 1000 /\ amounts = <<250>>) =>
                          Carries(sale, collections[s], 250, 2500, 750)
                    /\ (sale.QuotedPrice = 1000 /\ amounts = <<250, 750>>) =>
                          Carries(sale, collections[s], 1000, 10000, 0)
                    /\ (sale.QuotedPrice = 1000 /\ amounts = <<250, 750, 50>>) =>
                          Carries(sale, collections[s], 1050, 10500, 0)
                    /\ (sale.QuotedPrice = 500 /\ amounts = <<>>) =>
                          Carries(sale, collections[s], 0, 0, 500)

\* The third collection of the worked example was appended: the quote of
\* 1000 is paid 1050 and carries 105 percent; another sale's percentage
\* needed rounding.
DepositPercentAfterRollupWitness ==
    \E s \in Sessions :
        /\ AfterMutation(s)
        /\ run[s].path = "collection"
        /\ \E k \in 1..Len(sales[s]) :
              /\ sales[s][k].QuotedPrice = 1000
              /\ LedgerAmounts(collections[s], sales[s][k].QuoteID) = <<250, 750, 50>>
              /\ sales[s][k].DepositPct = Cell(10500)
        /\ \E k \in 1..Len(sales[s]) :
              /\ sales[s][k].QuotedPrice > 0
              /\ sales[s][k].DepositPct # NaN
              /\ sales[s][k].DepositPct[1] * sales[s][k].QuotedPrice
                    # sales[s][k].DepositPaid * 10000

----------------------------------------------------------------------------
(* Properties of the Assignments page *)

\* C20 (DaysTaken is clamped), as claimed: the row "Assign Task" appends
\* carries DaysTaken = max(end_date - start_date, 0), which is never
\* negative, also for an end_date before the start_date.
DaysTakenClamped ==
    [][\A s \in Sessions : \A crew_member \in TextInputs :
       \A start_date \in StartDateInputs : \A end_date \in EndDateInputs :
       \A selected \in QuoteIDs(load_data(disk).sales) :
          (/\ SubmitAssignment(s, selected, crew_member, start_date, end_date)
           /\ pc'[s] = "save") =>
              LET new == assignments'[s][Len(assignments'[s])]
              IN  /\ Len(assignments'[s]) = Len(disk.assignments) + 1
                  /\ new.CrewMember = crew_member
                  /\ new.DaysTaken = Max2(end_date - start_date, 0)
                  /\ new.DaysTaken >= 0]_vars

----------------------------------------------------------------------------
(* Properties of the Collections History table *)

\* The run of session s has shown the Collections History of a quote.
HistoryShown(s) == pc[s] = "end" /\ run[s].path = "history"

\* max(0, sale.DepositPaid - sum of the quote's ledger amounts), for the
\* quote whose history session s was shown.
HistoryOffset(s) ==
    LET any == {k \in 1..Len(sales[s]) : sales[s][k].QuoteID = run[s].selected}
        sale == sales[s][CHOOSE k \in any : \A j \in any : k <= j]
    IN  Max2(0, sale.DepositPaid
                  - SumSeq(LedgerAmounts(collections[s], run[s].selected)))

\* The quoted price of the Won quote whose history session s was shown.
HistoryPrice(s) ==
    LET won == {k \in 1..Len(sales[s]) :
                   sales[s][k].Status = "Won" /\ sales[s][k].QuoteID = run[s].selected}
    IN  sales[s][CHOOSE k \in won : \A j \in won : k <= j].QuotedPrice

\* C21 (collection history), as claimed: the history lists the ledger rows
\* of the quote in ledger order, and the cumulative total after the i-th
\* row is offset + the sum of the first i amounts, for every ledger, also
\* one that sums to more than the quoted price.
HistoryTotalIsOffsetPlusPrefix ==
    \A s \in Sessions :
        HistoryShown(s) =>
            LET amounts == LedgerAmounts(collections[s], run[s].selected)
            IN  /\ Len(run[s].history) = Len(amounts)
                /\ \A i \in 1..Len(amounts) :
                      /\ run[s].history[i].DepositPaid = amounts[i]
                      /\ run[s].history[i].TotalPaidAfterThis
                            = HistoryOffset(s) + SumSeq(SubSeq(amounts, 1, i))

\* C21, amended: the history lists the ledger rows of the quote in ledger
\* order; RunningTotal after the i-th row is the sum of the first i amounts,
\* and TotalPaidAfterThis is offset + that sum, clipped at the quoted price:
\* min(offset + sum of the first i amounts, QuotedPrice).
HistoryTotalClippedAtPrice ==
    \A s \in Sessions :
        HistoryShown(s) =>
            LET amounts == LedgerAmounts(collections[s], run[s].selected)
            IN  /\ Len(run[s].history) = Len(amounts)
                /\ \A i \in 1..Len(amounts) :
                      /\ run[s].history[i].DepositPaid = amounts[i]
                      /\ run[s].history[i].RunningTotal = SumSeq(SubSeq(amounts, 1, i))
                      /\ run[s].history[i].TotalPaidAfterThis
                            = Min2(HistoryOffset(s) + SumSeq(SubSeq(amounts, 1, i)),
                                   HistoryPrice(s))

\* The history of an over-paid quote with two payments was shown: the
\* second row's running total is the sum of the two, its total paid is the
\* quoted price, below that sum.
HistoryTotalClippedAtPriceWitness ==
    \E s \in Sessions :
        /\ HistoryShown(s)
        /\ Len(run[s].history) = 2
        /\ run[s].history[2].RunningTotal
              = run[s].history[1].DepositPaid + run[s].history[2].DepositPaid
        /\ run[s].history[2].TotalPaidAfterThis = HistoryPrice(s)
        /\ run[s].history[2].TotalPaidAfterThis < run[s].history[2].RunningTotal

----------------------------------------------------------------------------
(* Properties of the Collections form over a session *)

\* C22 (no valid collection is suppressed), as claimed: whatever happened
\* earlier in the session, "Save Collection" with an amount > 0 for a
\* selected Won quote is applied in its run: one ledger row with that quote
\* and amount is appended, the frames are reconciled and handed to
\* save_data (or the reconciliation raised).  The collection_submitted flag
\* does not keep a later valid submission from being applied.
ValidCollectionIsApplied ==
    [][\A s \in Sessions : \A selected_quote_id \in QuoteIDs(sales[s]) :
       \A deposit_paid_input \in AmountInputs :
       \A status_input \in CollectionStatusInputs :
          (/\ deposit_paid_input > 0
           /\ SubmitCollection(s, selected_quote_id, deposit_paid_input, status_input)) =>
              /\ Len(collections'[s]) = Len(collections[s]) + 1
              /\ collections'[s][Len(collections'[s])].QuoteID = selected_quote_id
              /\ collections'[s][Len(collections'[s])].DepositPaid = deposit_paid_input
              /\ run'[s].path = "collection"
              /\ pc'[s] = "save" \/ run'[s].raised]_vars

====
